---- MODULE Spec2Model ----
(***************************************************************************)
(* A model of newrelic.py: the Client of the New Relic REST API.           *)
(*                                                                         *)
(* One Client object, used by one thread.  A public method runs as a call  *)
(* (pc leaves "idle"), possibly several steps of the retry loop of         *)
(* _make_request, and an end (pc = "done") where the returned value or the *)
(* raised exception is in `outcome`; Return hands it to the caller and     *)
(* clears the frame.  The wall clock is read only at the start of a        *)
(* rate-limited call, so it advances between calls (Tick).                 *)
(*                                                                         *)
(* Python values: an exception is the name of its class; seconds of the    *)
(* timeout are milliseconds here (1.000 -> 1000); a response body is the   *)
(* sequence of its lines.                                                  *)
(***************************************************************************)
EXTENDS Integers, Sequences, FiniteSets, TLC

\* ------------------------------------------------------------------ bounds
MaxRetries == 3
MaxFailures == 4
MaxTicks == 2
StartTime == 1000

\* ------------------------------------------------------- program constants
DefaultRetries == 3
DefaultRetryDelay == 1
DefaultTimeout == 1000
MetricTimeout == 5000
Window == 60

PyNone == "None"
XmlDecl == "<?xml version=\"1.0\" encoding=\"UTF-8\"?>"

\* ------------------------------------------------------------------ inputs
Credentials == {PyNone, "", "12345"}
OtherRetryDelay == DefaultRetryDelay + 1
KwArgs ==
    {kw \in SUBSET (({"retries"} \X (0..MaxRetries)) \cup {<<"retry_delay", OtherRetryDelay>>}) :
        \A p \in kw, q \in kw : p[1] = q[1] => p = q}
StatusCodes == {200, 201, 302, 403, 404, 422, 500}
Bodies == {<<"<applications/>">>, <<XmlDecl, "<applications/>">>}
ApplicationLists == {<< >>, <<"123">>, <<"myapp">>, <<"123", "456">>}
TickSteps == {1, Window}
RequestMethods == {"view_applications", "delete_applications", "get_metric_names"}
RateLimited == {"get_metric_names", "get_metric_data"}

VARIABLES
    client,       \* the Client object's configuration, or NoClient
    attrs,        \* the dynamically added "<method>.window" attributes
    now,          \* int(time())
    ticks,        \* how often the clock has advanced (bounds the model)
    pc,           \* "idle" | "loop" | "after" | "done"
    caller,       \* the public method that is running
    args,         \* its arguments
    request,      \* the transport callable and timeout _make_request was given
    transport,    \* how many invocations of the transport raise ConnectionError
    attempts,     \* _make_request: attempts
    response,     \* _make_request: response
    events,       \* what _make_request has done so far, in order
    slept,        \* seconds spent in sleep() by this request
    parsed,       \* what _make_request returned (the tree of _parse_xml)
    outcome,      \* how the public method ended
    guardLog,     \* the evaluation of _api_rate_limit_exceeded in this call
    seen,         \* history: the operations the guard was ever asked about
    permittedAt   \* history: operation -> time of its last permitted call

vars == <<client, attrs, now, ticks, pc, caller, args, request, transport,
          attempts, response, events, slept, parsed, outcome, guardLog,
          seen, permittedAt>>

frame == <<caller, args, request, transport, attempts, response, events,
           slept, parsed, outcome, guardLog>>

\* ------------------------------------------------------------ Python values
NoClient ==
    [constructed |-> FALSE, account_id |-> PyNone, api_key |-> PyNone,
     retries |-> 0, retry_delay |-> 0, timeout |-> 0]
NoResponse == [received |-> FALSE, status_code |-> 0, text |-> << >>]
NoArgs == [account_id |-> PyNone, api_key |-> PyNone, kw |-> {}, applications |-> << >>]
NoRequest == [method |-> PyNone, timeout |-> 0]
NoOutcome == [kind |-> "none", exc |-> PyNone, value |-> PyNone]
NoGuard == [called |-> FALSE, api_call |-> PyNone, current_call_time |-> 0,
            previous_call_time |-> 0, limited |-> FALSE]
NoAttrs == [a \in {} |-> 0]

Returned(v) == [kind |-> "returned", exc |-> PyNone, value |-> v]
Raised(e) == [kind |-> "raised", exc |-> e, value |-> PyNone]

\* `not x` of a str-or-None argument
Falsy(x) == x \in {PyNone, ""}

\* a keyword argument, or the default of the signature
Arg(kw, name, default) ==
    IF \E p \in kw : p[1] = name
    THEN (CHOOSE p \in kw : p[1] = name)[2]
    ELSE default

\* ------------------------------------------------------------- exceptions
\* the number of arguments the __init__ of an exception class takes besides self
ExcInitArity(cls) == IF cls = "NewRelicApiRateLimitException" THEN 1 ELSE 0

\* `raise cls` (nargs = 0) or `raise cls(a1, ..)`: the class is instantiated first,
\* and a call that does not fit __init__ raises TypeError instead
Raise(cls, nargs) == IF ExcInitArity(cls) = nargs THEN cls ELSE "TypeError"

\* ------------------------------------------------------------ _make_request
\* a loop that allows one attempt too many
ShouldAttemptInclusive(a, retries) == a <= retries

\* the condition of the retry loop
ShouldAttempt(a, retries) == a < retries

\* the truth value of a response: None is false, and a requests.Response is
\* true exactly when it is ok, that is when its status is no 4xx or 5xx
Truthy(r) == r.received /\ r.status_code < 400

RECURSIVE LeadingDigit(_)
LeadingDigit(n) == IF n < 10 THEN n ELSE LeadingDigit(n \div 10)

\* str(status_code).startswith('2')
StartsWith2(status_code) == LeadingDigit(status_code) = 2

\* _handle_api_error: the class it raises
HandleApiError(status_code) ==
    IF 403 = status_code THEN Raise("NewRelicInvalidApiKeyException", 0)
    ELSE IF 404 = status_code THEN Raise("NewRelicUnknownApplicationException", 0)
    ELSE IF 422 = status_code THEN Raise("NewRelicInvalidParameterException", 0)
    ELSE Raise("NewRelicApiException", 0)

\* _parse_xml: a leading XML declaration line is dropped, the rest is the tree
ParseXml(text) ==
    IF Len(text) > 0 /\ text[1] = XmlDecl THEN Tail(text) ELSE text

\* the end of a request that does not check for a missing response
MakeRequestEndUnchecked(r) ==
    IF ~r.received THEN [exc |-> "AttributeError", tree |-> << >>]
    ELSE IF ~StartsWith2(r.status_code) THEN [exc |-> HandleApiError(r.status_code), tree |-> << >>]
    ELSE [exc |-> PyNone, tree |-> ParseXml(r.text)]

\* what follows the loop: the exception raised, or the parsed tree returned
MakeRequestEnd(r) ==
    IF ~Truthy(r) THEN [exc |-> Raise("NewRelicApiException", 0), tree |-> << >>]
    ELSE IF ~StartsWith2(r.status_code) THEN [exc |-> HandleApiError(r.status_code), tree |-> << >>]
    ELSE [exc |-> PyNone, tree |-> ParseXml(r.text)]

\* a loop without the break
AfterResponseNoBreak == "loop"

\* where the loop goes once the transport has returned a response (break)
AfterResponse == "after"

\* the events of one failed attempt: the call, the caught error, the sleep
FailedAttempt == <<"call", "ConnectionError", "sleep">>

RECURSIVE Count(_, _)
Count(seq, e) ==
    IF seq = << >> THEN 0
    ELSE (IF Head(seq) = e THEN 1 ELSE 0) + Count(Tail(seq), e)

Invocations == Count(events, "call")
Sleeps == Count(events, "sleep")

\* what an endpoint method makes of a tree without child elements
EndpointValue(method) == IF method = "view_applications" THEN "[]" ELSE "{}"

\* --------------------------------------------------- _api_rate_limit_exceeded
WindowAttr(api_call) == <<api_call, "window">>

PreviousCallTime(a, api_call) ==
    IF WindowAttr(api_call) \in DOMAIN a THEN a[WindowAttr(api_call)] ELSE 0

SetAttr(a, name, value) ==
    [x \in DOMAIN a \cup {name} |-> IF x = name THEN value ELSE a[x]]

\* a guard that lets a call through at exactly window seconds
RateLimitExceededAtWindow(a, current_call_time, api_call, window) ==
    ~(current_call_time - PreviousCallTime(a, api_call) >= window)

\* the value returned
RateLimitExceeded(a, current_call_time, api_call, window) ==
    ~(current_call_time - PreviousCallTime(a, api_call) > window)

\* a guard that records every call, rejected ones too
AttrsAfterGuardAlways(a, current_call_time, api_call, window) ==
    SetAttr(a, WindowAttr(api_call), current_call_time)

\* the attributes it leaves behind
AttrsAfterGuard(a, current_call_time, api_call, window) ==
    IF current_call_time - PreviousCallTime(a, api_call) > window
    THEN SetAttr(a, WindowAttr(api_call), current_call_time)
    ELSE a

\* the guard as the rate-limited methods call it (window = 60), with the history
Guard(api_call) ==
    /\ guardLog' = [called |-> TRUE, api_call |-> api_call,
                    current_call_time |-> now,
                    previous_call_time |-> PreviousCallTime(attrs, api_call),
                    limited |-> RateLimitExceeded(attrs, now, api_call, Window)]
    /\ attrs' = AttrsAfterGuard(attrs, now, api_call, Window)
    /\ seen' = seen \cup {api_call}
    /\ permittedAt' =
         IF RateLimitExceeded(attrs, now, api_call, Window) THEN permittedAt
         ELSE [c \in DOMAIN permittedAt \cup {api_call} |->
                  IF c = api_call THEN now ELSE permittedAt[c]]

\* ----------------------------------------------------------------- the state
Init ==
    /\ client = NoClient
    /\ attrs = NoAttrs
    /\ now = StartTime
    /\ ticks = 0
    /\ pc = "idle"
    /\ caller = PyNone
    /\ args = NoArgs
    /\ request = NoRequest
    /\ transport = 0
    /\ attempts = 0
    /\ response = NoResponse
    /\ events = << >>
    /\ slept = 0
    /\ parsed = << >>
    /\ outcome = NoOutcome
    /\ guardLog = NoGuard
    /\ seen = {}
    /\ permittedAt = [c \in {} |-> 0]

\* the clock advances between two calls
Tick(d) ==
    /\ pc = "idle"
    /\ ticks < MaxTicks
    /\ now' = now + d
    /\ ticks' = ticks + 1
    /\ UNCHANGED <<client, attrs, pc, seen, permittedAt>>
    /\ UNCHANGED frame

\* Client.__init__(account_id, api_key, **kw)
Construct(account_id, api_key, kw) ==
    /\ pc = "idle"
    /\ ~client.constructed
    /\ caller' = "__init__"
    /\ args' = [NoArgs EXCEPT !.account_id = account_id, !.api_key = api_key, !.kw = kw]
    /\ IF Falsy(account_id) \/ Falsy(api_key)
       THEN /\ outcome' = Raised(Raise("NewRelicCredentialException", 1))
            /\ client' = client
       ELSE /\ outcome' = Returned("Client")
            /\ client' = [constructed |-> TRUE,
                          account_id |-> account_id,
                          api_key |-> api_key,
                          retries |-> Arg(kw, "retries", DefaultRetries),
                          retry_delay |-> Arg(kw, "retry_delay", DefaultRetryDelay),
                          timeout |-> Arg(kw, "timeout", DefaultTimeout)]
    /\ pc' = "done"
    /\ UNCHANGED <<attrs, now, ticks, seen, permittedAt, request, transport,
                   attempts, response, events, slept, parsed, guardLog>>

\* the entry of _make_request, from _make_get_request or _make_post_request
BeginRequest(method, http, timeout, failures) ==
    /\ caller' = method
    /\ args' = NoArgs
    /\ request' = [method |-> http,
                   timeout |-> IF timeout = 0 THEN client.timeout ELSE timeout]
    /\ transport' = failures
    /\ attempts' = 0
    /\ response' = NoResponse
    /\ events' = << >>
    /\ slept' = 0
    /\ parsed' = << >>
    /\ outcome' = NoOutcome
    /\ pc' = "loop"

view_applications(failures) ==
    /\ pc = "idle"
    /\ client.constructed
    /\ BeginRequest("view_applications", "requests.get", 0, failures)
    /\ UNCHANGED <<client, attrs, now, ticks, seen, permittedAt, guardLog>>

delete_applications(failures) ==
    /\ pc = "idle"
    /\ client.constructed
    /\ BeginRequest("delete_applications", "requests.post", 0, failures)
    /\ UNCHANGED <<client, attrs, now, ticks, seen, permittedAt, guardLog>>

get_application_summary_metrics ==
    /\ pc = "idle"
    /\ client.constructed
    /\ caller' = "get_application_summary_metrics"
    /\ outcome' = Returned(PyNone)
    /\ pc' = "done"
    /\ UNCHANGED <<client, attrs, now, ticks, seen, permittedAt, args, request,
                   transport, attempts, response, events, slept, parsed, guardLog>>

get_metric_names(failures) ==
    /\ pc = "idle"
    /\ client.constructed
    /\ Guard("get_metric_names")
    /\ IF RateLimitExceeded(attrs, now, "get_metric_names", Window)
       THEN /\ caller' = "get_metric_names"
            /\ outcome' = Raised(Raise("NewRelicApiRateLimitException", 0))
            /\ pc' = "done"
            /\ UNCHANGED <<args, request, transport, attempts, response, events,
                           slept, parsed>>
       ELSE BeginRequest("get_metric_names", "requests.get", MetricTimeout, failures)
    /\ UNCHANGED <<client, now, ticks>>

\* get_metric_data past the guard: applications[0] of an empty list raises
\* IndexError; otherwise the parameters are built up to the first use of the
\* undefined name begin_time, which raises NameError before any request
MetricDataEnd(applications) ==
    IF Len(applications) = 0 THEN "IndexError" ELSE "NameError"

get_metric_data(applications) ==
    /\ pc = "idle"
    /\ client.constructed
    /\ Guard("get_metric_data")
    /\ caller' = "get_metric_data"
    /\ args' = [NoArgs EXCEPT !.applications = applications]
    /\ outcome' =
         IF RateLimitExceeded(attrs, now, "get_metric_data", Window)
         THEN Raised(Raise("NewRelicApiRateLimitException", 0))
         ELSE Raised(MetricDataEnd(applications))
    /\ pc' = "done"
    /\ UNCHANGED <<client, now, ticks, request, transport, attempts, response,
                   events, slept, parsed>>

\* one turn of the loop in which the transport raises ConnectionError
AttemptFails ==
    /\ pc = "loop"
    /\ ShouldAttempt(attempts, client.retries)
    /\ Invocations < transport
    /\ events' = events \o FailedAttempt
    /\ slept' = slept + client.retry_delay * Count(FailedAttempt, "sleep")
    /\ attempts' = attempts + 1
    /\ UNCHANGED <<client, attrs, now, ticks, seen, permittedAt, pc, caller, args,
                   request, transport, response, parsed, outcome, guardLog>>

\* one turn of the loop in which the transport returns a response
AttemptResponds(status_code, text) ==
    /\ pc = "loop"
    /\ ShouldAttempt(attempts, client.retries)
    /\ Invocations >= transport
    /\ events' = events \o <<"call", "response">>
    /\ response' = [received |-> TRUE, status_code |-> status_code, text |-> text]
    /\ pc' = AfterResponse
    /\ UNCHANGED <<client, attrs, now, ticks, seen, permittedAt, caller, args,
                   request, transport, attempts, slept, parsed, outcome, guardLog>>

\* one turn of the loop in which the transport raises an exception the loop does
\* not catch (requests.Timeout): it leaves _make_request and the endpoint method
AttemptTimesOut ==
    /\ pc = "loop"
    /\ ShouldAttempt(attempts, client.retries)
    /\ Invocations >= transport
    /\ events' = events \o <<"call", "Timeout">>
    /\ outcome' = Raised("Timeout")
    /\ pc' = "done"
    /\ UNCHANGED <<client, attrs, now, ticks, seen, permittedAt, caller, args,
                   request, transport, attempts, response, slept, parsed, guardLog>>

\* after the loop: the response is checked and parsed, the endpoint method
\* shapes the tree and returns
FinishRequest ==
    /\ \/ pc = "after"
       \/ pc = "loop" /\ ~ShouldAttempt(attempts, client.retries)
    /\ LET end == MakeRequestEnd(response) IN
         /\ parsed' = end.tree
         /\ outcome' = IF end.exc = PyNone THEN Returned(EndpointValue(caller))
                       ELSE Raised(end.exc)
    /\ pc' = "done"
    /\ UNCHANGED <<client, attrs, now, ticks, seen, permittedAt, caller, args,
                   request, transport, attempts, response, events, slept, guardLog>>

\* the caller has the result; the frame is gone
Return ==
    /\ pc = "done"
    /\ pc' = "idle"
    /\ caller' = PyNone
    /\ args' = NoArgs
    /\ request' = NoRequest
    /\ transport' = 0
    /\ attempts' = 0
    /\ response' = NoResponse
    /\ events' = << >>
    /\ slept' = 0
    /\ parsed' = << >>
    /\ outcome' = NoOutcome
    /\ guardLog' = NoGuard
    /\ UNCHANGED <<client, attrs, now, ticks, seen, permittedAt>>

Next ==
    \/ \E d \in TickSteps : Tick(d)
    \/ \E a \in Credentials, k \in Credentials, kw \in KwArgs : Construct(a, k, kw)
    \/ \E n \in 0..MaxFailures : view_applications(n)
    \/ \E n \in 0..MaxFailures : delete_applications(n)
    \/ get_application_summary_metrics
    \/ \E n \in 0..MaxFailures : get_metric_names(n)
    \/ \E apps \in ApplicationLists : get_metric_data(apps)
    \/ AttemptFails
    \/ \E s \in StatusCodes, t \in Bodies : AttemptResponds(s, t)
    \/ AttemptTimesOut
    \/ FinishRequest
    \/ Return

Spec == Init /\ [][Next]_vars

\* ------------------------------------------------------------------ claims
\* a call of an endpoint method that reached _make_request
InRequest == request # NoRequest

Document == <<"<applications/>">>

\* every invocation of the transport so far raised ConnectionError
AllAttemptsFailed == Count(events, "ConnectionError") = Invocations

\* this step evaluates the guard for operation c
GuardStep(c) == ~guardLog.called /\ guardLog'.called /\ guardLog'.api_call = c

\* C1: with retries = R and a transport that raises ConnectionError on its first
\* N invocations and returns a 2xx response afterwards, the request returns the
\* parsed document if and only if N < R, and the transport is invoked at most R
\* times.
C1_SucceedsIffFailuresBelowRetries ==
    InRequest =>
      /\ Invocations <= client.retries
      /\ (pc = "done" /\ outcome.exc # "Timeout"
            /\ (response.received => response.status_code \in 200..299))
         => ((outcome.kind = "returned" /\ parsed = Document)
               <=> transport < client.retries)

C1_Witness ==
    /\ pc = "done" /\ InRequest
    /\ transport >= 1 /\ transport < client.retries
    /\ Invocations = transport + 1
    /\ response.status_code \in 200..299
    /\ outcome.kind = "returned"

\* C2: a request all of whose attempts raised ConnectionError ends with the
\* generic NewRelicApiException; with retries = 0 the transport is never
\* invoked and the same exception is raised.
C2_AllFailedRaisesApiException ==
    (pc = "done" /\ InRequest) =>
      /\ AllAttemptsFailed => outcome = Raised("NewRelicApiException")
      /\ client.retries = 0 =>
            Invocations = 0 /\ outcome = Raised("NewRelicApiException")

C2_Witness ==
    /\ pc = "done" /\ InRequest
    /\ client.retries >= 2
    /\ Invocations = client.retries
    /\ AllAttemptsFailed
    /\ outcome = Raised("NewRelicApiException")

\* the error the status code of a response stands for
ErrorOfStatus(status_code) ==
    CASE status_code \in 200..299 -> PyNone
      [] status_code = 403 -> "NewRelicInvalidApiKeyException"
      [] status_code = 404 -> "NewRelicUnknownApplicationException"
      [] status_code = 422 -> "NewRelicInvalidParameterException"
      [] OTHER -> "NewRelicApiException"

\* C3: once a response is obtained the error raised depends on its status code
\* alone: 403, 404 and 422 raise their own exception, any other non-2xx code the
\* generic NewRelicApiException, a 2xx code none.
C3_ErrorDeterminedByStatus ==
    (pc = "done" /\ InRequest /\ response.received) =>
        outcome.exc = ErrorOfStatus(response.status_code)

\* C4: a response, whatever its status, ends the attempts: nothing follows it in
\* the request, and every attempt but the first directly follows a caught
\* ConnectionError and its sleep.
C4_ResponseEndsAttempts ==
    InRequest =>
      \A i \in 1..Len(events) :
        /\ events[i] = "response" => i = Len(events)
        /\ (events[i] = "call" /\ i > 1) =>
              (i > 2 /\ events[i-1] = "sleep" /\ events[i-2] = "ConnectionError")

C4_Witness ==
    /\ pc = "done" /\ InRequest
    /\ response.received /\ response.status_code = 500
    /\ client.retries >= 2
    /\ Invocations = 1

\* C5: the guard returns not-rate-limited for an operation never seen before,
\* rate-limited for a call within Window seconds of the last permitted call, and
\* not-rate-limited again for a call more than Window seconds after it.
C5_GuardFollowsWindow ==
    [][\A c \in RateLimited : GuardStep(c) =>
          /\ c \notin seen => ~guardLog'.limited
          /\ (c \in DOMAIN permittedAt /\ now - permittedAt[c] <= Window)
                => guardLog'.limited
          /\ (c \in DOMAIN permittedAt /\ now - permittedAt[c] > Window)
                => ~guardLog'.limited]_vars

C5_Witness ==
    /\ guardLog.called /\ ~guardLog.limited
    /\ guardLog.previous_call_time >= StartTime
    /\ guardLog.current_call_time > guardLog.previous_call_time + Window

\* C6: get_metric_names and get_metric_data, when the guard reports
\* rate-limited, fail with NewRelicApiRateLimitException and attempt no HTTP
\* request.
C6_RateLimitedRaisesRateLimitException ==
    (pc = "done" /\ caller \in RateLimited /\ guardLog.limited) =>
        /\ outcome = Raised("NewRelicApiRateLimitException")
        /\ Invocations = 0

\* C7: constructing a Client without account id or API key fails with
\* NewRelicCredentialException and produces no client; with both it succeeds
\* and stores the defaults retries = 3, retry_delay = 1, timeout = 1.0.
C7_ConstructionChecksCredentials ==
    (pc = "done" /\ caller = "__init__") =>
        IF Falsy(args.account_id) \/ Falsy(args.api_key)
        THEN outcome = Raised("NewRelicCredentialException") /\ ~client.constructed
        ELSE /\ outcome.kind = "returned" /\ client.constructed
             /\ args.kw = {} =>
                  /\ client.retries = 3
                  /\ client.retry_delay = 1
                  /\ client.timeout = 1000

\* C8: get_application_summary_metrics always ends in a "not implemented"
\* error, never in a normal return.
C8_SummaryMetricsNotImplemented ==
    (pc = "done" /\ caller = "get_application_summary_metrics") =>
        outcome = Raised("NotImplementedError")

\* C9: the waits of a request lie between its attempts: every sleep is directly
\* followed by a further attempt, so a finished request has slept once less
\* than it has attempted whenever all attempts failed.
C9_WaitsOnlyBetweenAttempts ==
    (pc = "done" /\ InRequest) =>
      /\ \A i \in 1..Len(events) :
            events[i] = "sleep" => (i < Len(events) /\ events[i+1] = "call")
      /\ (AllAttemptsFailed /\ Invocations > 0) =>
            (Sleeps = Invocations - 1 /\ slept = client.retry_delay * (Invocations - 1))

\* C10: the guard changes the recorded time of an operation only when it
\* returns not-rate-limited, to the current time; a rate-limited call changes no
\* recorded time, and nothing but the guard changes one.
C10_OnlyPermittedCallsRecordTime ==
    [][/\ \A c \in RateLimited : GuardStep(c) =>
            IF guardLog'.limited
            THEN attrs' = attrs
            ELSE /\ DOMAIN attrs' = DOMAIN attrs \cup {WindowAttr(c)}
                 /\ attrs'[WindowAttr(c)] = now
                 /\ \A x \in DOMAIN attrs \ {WindowAttr(c)} : attrs'[x] = attrs[x]
       /\ attrs' # attrs =>
            \E c \in RateLimited : GuardStep(c) /\ ~guardLog'.limited]_vars

C10_Witness ==
    /\ guardLog.called /\ guardLog.limited
    /\ WindowAttr(guardLog.api_call) \in DOMAIN attrs
    /\ attrs[WindowAttr(guardLog.api_call)] = guardLog.previous_call_time
    /\ guardLog.current_call_time > guardLog.previous_call_time
    /\ Cardinality(DOMAIN attrs) = 2

====
